---- MODULE Spec2Model ----
(***************************************************************************)
(* Model of the live audio session of DrNex.                               *)
(*                                                                         *)
(*   services/geminiService  connectLiveTriageSession, startLiveDictation  *)
(*   components/VoiceAvatarModal   the avatar-mode caller and its playback *)
(*                                 scheduler                               *)
(*   App.handleMicClick            the dictation-mode caller               *)
(*                                                                         *)
(* One session is modelled from the moment its caller starts it; of the    *)
(* session opened before it only a summary is kept.  Every JavaScript task *)
(* (an event handler together with the microtasks it leaves behind) is one *)
(* action; an await on something the browser or the network completes      *)
(* splits a function into several actions.                                 *)
(***************************************************************************)
EXTENDS Integers, Sequences, FiniteSets

\* ------------------------------------------------------------------ bounds
MaxStops == 2        \* invocations of the returned stop function
MaxThrows == 1       \* release steps made to throw
MaxFrames == 2       \* frames delivered to onaudioprocess
MaxChunks == 3       \* inbound audio messages
MaxPending == 2      \* callbacks suspended on the decode at the same time
MaxClock == 9000     \* output clock horizon, in sample periods at 24 kHz
MaxStarts == 2       \* sessions started by the caller, one after the other
MaxSamples == 2      \* samples of a frame given to the encoder

\* ------------------------------------------------------- program constants
PlaybackRate == 24000          \* decodeAudioData(audioData, ctx, 24000, 1)
BytesPerSample == 2            \* 16-bit PCM
GuardDivisor == 10             \* the guard interval 0.1 s is 1/10 s

\* Time on the output clock is counted in sample periods of the playback
\* rate, so a buffer of n samples lasts n ticks and 0.1 s is 2400 ticks.
GuardSamples == PlaybackRate \div GuardDivisor

\* inputs of the playback scheduler
ChunkBytes == {4095, 4096, 8192}   \* byte lengths of inbound chunks
ClockSteps == {1200, 5000}         \* advances of the output clock (50 ms, 208 ms)
LongStep == CHOOSE d \in ClockSteps : \A e \in ClockSteps : e <= d

\* inbound messages: the audio payload of the first part (0: none) and the
\* input transcription (empty: none), a text being a sequence of characters
Texts == {<<>>, <<" ">>, <<"a">>, <<" ", "b">>}
Messages == [audio : {0} \cup ChunkBytes, text : Texts]

VARIABLES
    mode,            \* "avatar" (connectLiveTriageSession) or "dictation"
    pc,              \* position of the caller's start function
    audioContext,    \* state of the session's 16 kHz capture context
    streamLive,      \* the session's MediaStream has a live track
    procConnected,   \* source -> processor -> destination is wired
    sessionPromise,  \* state of the promise returned by ai.live.connect
    ws,              \* state of the underlying connection
    activeSession,   \* activeSession !== null
    isCleaningUp,
    thenQ,           \* reactions registered on sessionPromise while pending
    sent,            \* frames passed to session.sendRealtimeInput, in order
    nCaptured,       \* frames delivered to onaudioprocess so far
    calls,           \* per release step: how often the step was executed
    unhandled,       \* reactions of sessionPromise rejected with no handler
    stopRef,         \* stopSessionRef.current / stopDictationRef.current set
    isOpen,          \* VoiceAvatarModal isOpen prop
    cleanup,         \* VoiceAvatarModal effect's cleanup flag
    status,          \* VoiceAvatarModal status
    isRecording,     \* App isRecording
    modalStream,     \* VoiceAvatarModal streamRef
    modalTap,        \* VoiceAvatarModal sourceRef/processorRef
    modalCtx,        \* VoiceAvatarModal audioContextRef (24 kHz output)
    inputCtx,        \* VoiceAvatarModal inputCtx (16 kHz)
    nStops,          \* history: invocations of the stop function
    nThrows,         \* history: release steps that threw
    early,           \* history: frames captured while the handshake was pending
    stoppedAtOpen,   \* history: isCleaningUp when the handshake resolved
    endedFirst,      \* history: an open session closed or failed before any stop
    onCloseLog,      \* history: invocations of the caller's onClose callback
    clock,           \* modalCtx.currentTime
    nextStartTime,   \* nextStartTimeRef.current
    decodeQ,         \* audio callbacks suspended at await decodeAudioData
    scheduled,       \* history: source.start calls, in call order
    ended,           \* scheduled buffers whose onended has fired
    isTalking,
    nArrived,        \* audio chunks delivered to the audio callback so far
    decodeErrors,    \* chunks whose decode failed
    nStarts,         \* history: start calls made by the caller
    nConnects,       \* history: calls of ai.live.connect
    prior,           \* what is left alive of the session opened before
    inbox,           \* history: messages given to callbacks.onmessage
    delivered,       \* history: invocations of the caller's data callback
    inputText,       \* App inputText
    frame,           \* encoder input: a frame of samples
    chunk,           \* createPcmBlob output: base64 text of the PCM bytes
    pcm              \* decoder output: samples

sessVars == <<mode, pc, audioContext, streamLive, procConnected, sessionPromise,
              ws, activeSession, isCleaningUp, thenQ, sent, nCaptured, calls,
              unhandled, nStops, nThrows, early, stoppedAtOpen, endedFirst,
              onCloseLog, nStarts, nConnects, prior>>
callerVars == <<stopRef, isOpen, cleanup, status, isRecording, modalStream,
                modalTap, modalCtx, inputCtx>>
playVars == <<clock, nextStartTime, decodeQ, scheduled, ended, isTalking,
              nArrived, decodeErrors>>
inVars == <<inbox, delivered, inputText>>
codecVars == <<frame, chunk, pcm>>
startVars == <<nStarts, nConnects, prior>>
vars == <<sessVars, callerVars, playVars, inVars, codecVars>>

\* nothing is left of an earlier session
NoPrior == [session |-> FALSE, stream |-> FALSE, ref |-> FALSE, orphans |-> 0,
            modalStream |-> FALSE, outCtx |-> FALSE]

Modes == {"avatar", "dictation"}
Steps == <<"tracks", "source", "processor", "ctx", "session">>
StepSet == {Steps[i] : i \in 1..Len(Steps)}
StepIdx(s) == CHOOSE i \in 1..Len(Steps) : Steps[i] = s

\* nothing has been started
Idle ==
    /\ pc = "idle"
    /\ audioContext = "none"
    /\ streamLive = FALSE
    /\ procConnected = FALSE
    /\ sessionPromise = "none"
    /\ ws = "none"
    /\ activeSession = FALSE
    /\ isCleaningUp = FALSE
    /\ thenQ = <<>>
    /\ sent = <<>>
    /\ nCaptured = 0
    /\ calls = [s \in StepSet |-> 0]
    /\ unhandled = {}
    /\ stopRef = FALSE
    /\ isOpen = FALSE
    /\ cleanup = FALSE
    /\ status = "connecting"
    /\ isRecording = FALSE
    /\ modalStream = "none"
    /\ modalTap = "none"
    /\ modalCtx = "none"
    /\ inputCtx = "none"
    /\ nStops = 0
    /\ nThrows = 0
    /\ early = <<>>
    /\ stoppedAtOpen = FALSE
    /\ endedFirst = FALSE
    /\ onCloseLog = <<>>
    /\ clock = 0
    /\ nextStartTime = 0
    /\ decodeQ = <<>>
    /\ scheduled = <<>>
    /\ ended = {}
    /\ isTalking = FALSE
    /\ nArrived = 0
    /\ decodeErrors = 0
    /\ nStarts = 0
    /\ nConnects = 0
    /\ prior = NoPrior
    /\ inbox = <<>>
    /\ delivered = <<>>
    /\ inputText = <<>>
    /\ chunk = <<>>
    /\ pcm = <<>>

Init ==
    /\ mode \in Modes
    /\ frame = <<>>
    /\ Idle

\* ----------------------------------------------------------------- helpers
Frame(n) == [k |-> "frame", id |-> n]
SetActive == [k |-> "setActive", id |-> 0]
CloseIt == [k |-> "close", id |-> 0]

\* mutant: frames captured before the session is open are discarded
FrameIdsDropped(q) == <<>>

\* mutant: the reactions held on the promise run last-registered first
FrameIdsReversed(q) ==
    LET fq == SelectSeq(q, LAMBDA e : e.k = "frame")
    IN  [i \in 1..Len(fq) |-> fq[Len(fq) + 1 - i].id]

\* the frames among the reactions q, in registration order
FrameIds(q) ==
    LET fq == SelectSeq(q, LAMBDA e : e.k = "frame")
    IN  [i \in 1..Len(fq) |-> fq[i].id]

\* the number of deferred s.close() reactions among q
NCloses(q) == Len(SelectSeq(q, LAMBDA e : e.k = "close"))

\* the kinds of the reactions of q that have no rejection handler
Unhandled(q, m) ==
    {q[i].k : i \in 1..Len(q)} \ (IF m = "dictation" THEN {"setActive"} ELSE {})

\* ------------------------------------------------ the returned stop function
\* thr is the release step that throws in this invocation, or "none".
Reached(s, thr) == thr = "none" \/ StepIdx(s) <= StepIdx(thr)
Done(s, thr) == Reached(s, thr) /\ s # thr

\* the steps that can be made to throw now: audioContext.close() and
\* activeSession.close() are only called under their conditions
ThrowChoices ==
    {"none"} \cup
    {s \in StepSet : /\ nThrows < MaxThrows
                     /\ (s = "ctx" => audioContext # "closed")
                     /\ (s = "session" => activeSession)}

\* ps, q, unh, w: the state of sessionPromise, its pending reactions, the
\* unhandled rejections and the connection at the moment the function runs
StopFn(thr, ps, q, unh, w) ==
    LET ctxCall == Reached("ctx", thr) /\ audioContext # "closed"
        sessCall == Reached("session", thr) /\ activeSession
        sessDefer == Reached("session", thr) /\ ~activeSession
    IN  /\ isCleaningUp' = TRUE
        /\ streamLive' = (streamLive /\ ~Done("tracks", thr))
        /\ procConnected' = (procConnected /\ ~Done("processor", thr))
        /\ audioContext' = IF ctxCall /\ Done("ctx", thr) /\ audioContext = "running"
                           THEN "closing" ELSE audioContext
        /\ calls' = [s \in StepSet |->
                        calls[s] + (CASE s = "ctx" -> IF ctxCall THEN 1 ELSE 0
                                      [] s = "session" -> IF sessCall THEN 1 ELSE 0
                                      [] OTHER -> IF Reached(s, thr) THEN 1 ELSE 0)]
        /\ ws' = IF sessCall /\ Done("session", thr) /\ w \in {"open", "errored"}
                 THEN "closing" ELSE w
        /\ thenQ' = IF sessDefer /\ ps = "pending" THEN Append(q, CloseIt) ELSE q
        /\ unhandled' = IF sessDefer /\ ps = "rejected"
                        THEN unh \cup {"closeAfterReject"} ELSE unh
        /\ nStops' = nStops + 1
        /\ nThrows' = nThrows + (IF thr = "none" THEN 0 ELSE 1)

stopVars == <<isCleaningUp, streamLive, procConnected, audioContext, calls, ws,
              thenQ, unhandled, nStops, nThrows>>

\* the stop function is not called
NoStop(q, unh, w) ==
    /\ thenQ' = q
    /\ unhandled' = unh
    /\ ws' = w
    /\ UNCHANGED <<isCleaningUp, streamLive, procConnected, audioContext, calls,
                   nStops, nThrows>>

\* ---------------------------------------------------- the callers' handlers
\* the session calls the onClose it was given, from callbacks.onclose or
\* callbacks.onerror
CallOnClose(by) ==
    onCloseLog' = Append(onCloseLog, [by |-> by, stopped |-> isCleaningUp])

\* VoiceAvatarModal's onClose callback
ModalOnClose == status' = IF cleanup THEN status ELSE "disconnected"

\* App.handleMicClick's onError callback
AppOnError(ps, q, unh, w) ==
    /\ isRecording' = FALSE
    /\ IF stopRef
       THEN \E thr \in ThrowChoices :
                /\ StopFn(thr, ps, q, unh, w)
                /\ stopRef' = (thr # "none")
       ELSE NoStop(q, unh, w) /\ UNCHANGED stopRef

\* App.handleMicClick's onClose callback
AppOnClose ==
    /\ isRecording' = FALSE
    /\ stopRef' = FALSE

\* ------------------------------------------------------------------ starting
histVars == <<nStops, nThrows, early, stoppedAtOpen, endedFirst, onCloseLog>>
modalRes == <<modalStream, modalTap, modalCtx, inputCtx>>

\* VoiceAvatarModal: the effect runs startSession up to its first await
OpenModal ==
    /\ mode = "avatar" /\ pc = "idle" /\ ~isOpen
    /\ isOpen' = TRUE
    /\ cleanup' = FALSE
    /\ status' = "connecting"
    /\ modalCtx' = "running"
    /\ inputCtx' = "running"
    /\ pc' = "modalMedia"
    /\ nStarts' = nStarts + 1
    /\ UNCHANGED <<mode, nConnects, prior, sessionPromise, activeSession, sent,
                   nCaptured, stopVars, early, stoppedAtOpen, endedFirst, onCloseLog, stopRef,
                   isRecording, modalStream, modalTap, playVars, inVars, codecVars>>

\* the modal's own getUserMedia resolves (a stream still live in streamRef is
\* overwritten); connectLiveTriageSession is called and runs up to
\* await audioContext.resume()
ModalMediaGranted ==
    /\ pc = "modalMedia"
    /\ prior' = [prior EXCEPT !.modalStream = @ \/ modalStream = "live"]
    /\ modalStream' = "live"
    /\ modalTap' = "created"
    /\ audioContext' = "running"
    /\ pc' = "resume"
    /\ UNCHANGED <<mode, nStarts, nConnects, sessionPromise, activeSession, sent, nCaptured,
                   isCleaningUp, streamLive, procConnected, calls, ws, thenQ,
                   unhandled, histVars, stopRef, isOpen, cleanup, status,
                   isRecording, modalCtx, inputCtx, playVars, inVars, codecVars>>

\* the modal's own getUserMedia rejects: catch sets the status
ModalMediaDenied ==
    /\ pc = "modalMedia"
    /\ status' = "error"
    /\ pc' = "failed"
    /\ UNCHANGED <<mode, startVars, sessionPromise, activeSession, sent, nCaptured, stopVars,
                   early, stoppedAtOpen, endedFirst, onCloseLog, stopRef, isOpen, cleanup,
                   isRecording, modalRes, playVars, inVars, codecVars>>

\* App.handleMicClick, not recording: startLiveDictation runs up to
\* await audioContext.resume()
MicClickStart ==
    /\ mode = "dictation" /\ pc = "idle" /\ ~isRecording
    /\ isRecording' = TRUE
    /\ audioContext' = "running"
    /\ pc' = "resume"
    /\ nStarts' = nStarts + 1
    /\ UNCHANGED <<mode, nConnects, prior, sessionPromise, activeSession, sent, nCaptured,
                   isCleaningUp, streamLive, procConnected, calls, ws, thenQ,
                   unhandled, histVars, stopRef, isOpen, cleanup, status,
                   modalRes, playVars, inVars, codecVars>>

\* audioContext.resume() resolves; getUserMedia is called
ResumeDone ==
    /\ pc = "resume"
    /\ pc' = "getMedia"
    /\ UNCHANGED <<mode, startVars, sessionPromise, activeSession, sent, nCaptured, stopVars,
                   early, stoppedAtOpen, endedFirst, onCloseLog, callerVars, playVars, inVars, codecVars>>

\* getUserMedia resolves: the graph is built, ai.live.connect is called, the
\* stop function is returned and the caller stores it
MediaGranted ==
    /\ pc = "getMedia"
    /\ streamLive' = TRUE
    /\ procConnected' = TRUE
    /\ sessionPromise' = "pending"
    /\ ws' = "connecting"
    /\ thenQ' = <<SetActive>>
    /\ pc' = "started"
    /\ stopRef' = TRUE
    /\ nConnects' = nConnects + 1
    /\ prior' = IF prior.ref
                THEN [prior EXCEPT !.ref = FALSE, !.session = FALSE, !.stream = FALSE,
                                   !.orphans = @ + (IF prior.session \/ prior.stream
                                                    THEN 1 ELSE 0)]
                ELSE prior
    /\ UNCHANGED <<mode, nStarts, activeSession, sent, nCaptured, isCleaningUp, audioContext,
                   calls, unhandled, histVars, isOpen, cleanup, status,
                   isRecording, modalRes, playVars, inVars, codecVars>>

\* mutant: the rejection of getUserMedia is swallowed
MediaDeniedSilent ==
    /\ pc = "getMedia"
    /\ pc' = "failed"
    /\ UNCHANGED <<mode, startVars, sessionPromise, activeSession, sent, nCaptured, stopVars,
                   early, stoppedAtOpen, endedFirst, onCloseLog, callerVars, playVars, inVars, codecVars>>

\* getUserMedia rejects: the start function rejects and the caller's catch runs
MediaDenied ==
    /\ pc = "getMedia"
    /\ pc' = "failed"
    /\ status' = IF mode = "avatar" THEN "error" ELSE status
    /\ isRecording' = IF mode = "dictation" THEN FALSE ELSE isRecording
    /\ UNCHANGED <<mode, startVars, sessionPromise, activeSession, sent, nCaptured, stopVars,
                   early, stoppedAtOpen, endedFirst, onCloseLog, stopRef, isOpen, cleanup,
                   modalRes, playVars, inVars, codecVars>>

\* ------------------------------------------------------------- the handshake
\* mutant: the frames held on the promise are sent when it resolves, stop
\* having been invoked or not
HandshakeOpenFlush ==
    /\ sessionPromise = "pending" /\ ws = "connecting"
    /\ sessionPromise' = "resolved"
    /\ activeSession' = TRUE
    /\ status' = IF mode = "avatar" /\ ~cleanup THEN "connected" ELSE status
    /\ sent' = sent \o FrameIds(thenQ)
    /\ calls' = [calls EXCEPT !["session"] = @ + NCloses(thenQ)]
    /\ ws' = IF NCloses(thenQ) > 0 THEN "closing" ELSE "open"
    /\ thenQ' = <<>>
    /\ stoppedAtOpen' = isCleaningUp
    /\ UNCHANGED <<mode, startVars, pc, nCaptured, isCleaningUp, streamLive, procConnected,
                   audioContext, unhandled, nStops, nThrows, early, endedFirst, onCloseLog,
                   stopRef, isOpen, cleanup, isRecording, modalRes, playVars, inVars, codecVars>>

\* the connection opens: onopen runs, sessionPromise resolves and its
\* reactions run in registration order
HandshakeOpen ==
    /\ sessionPromise = "pending" /\ ws = "connecting"
    /\ sessionPromise' = "resolved"
    /\ activeSession' = TRUE
    /\ status' = IF mode = "avatar" /\ ~cleanup THEN "connected" ELSE status
    /\ sent' = IF isCleaningUp THEN sent ELSE sent \o FrameIds(thenQ)
    /\ calls' = [calls EXCEPT !["session"] = @ + NCloses(thenQ)]
    /\ ws' = IF NCloses(thenQ) > 0 THEN "closing" ELSE "open"
    /\ thenQ' = <<>>
    /\ stoppedAtOpen' = isCleaningUp
    /\ UNCHANGED <<mode, startVars, pc, nCaptured, isCleaningUp, streamLive, procConnected,
                   audioContext, unhandled, nStops, nThrows, early, endedFirst, onCloseLog,
                   stopRef, isOpen, cleanup, isRecording, modalRes, playVars, inVars, codecVars>>
\* mutant: a rejected handshake is started again
HandshakeRejectRetry ==
    /\ sessionPromise = "pending"
    /\ nConnects' = nConnects + 1
    /\ UNCHANGED <<mode, nStarts, prior, pc, sessionPromise, activeSession, sent,
                   nCaptured, stopVars, early, stoppedAtOpen, endedFirst, onCloseLog, callerVars,
                   playVars, inVars, codecVars>>

\* ai.live.connect rejects: every reaction registered with then alone is an
\* unhandled rejection; dictation's catch(onError) runs the App's onError
HandshakeReject ==
    /\ sessionPromise = "pending"
    /\ sessionPromise' = "rejected"
    /\ IF mode = "dictation"
       THEN /\ stopRef => nStops < MaxStops
            /\ AppOnError("rejected", <<>>, unhandled \cup Unhandled(thenQ, mode), "closed")
       ELSE /\ NoStop(<<>>, unhandled \cup Unhandled(thenQ, mode), "closed")
            /\ UNCHANGED <<isRecording, stopRef>>
    /\ UNCHANGED <<mode, startVars, pc, activeSession, sent, nCaptured, early, stoppedAtOpen,
                   endedFirst, onCloseLog, isOpen, cleanup, status, modalRes, playVars, inVars, codecVars>>

\* --------------------------------------------------------- session callbacks
\* callbacks.onerror
TransportError ==
    /\ ws \in {"connecting", "open"}
    /\ endedFirst' = (endedFirst \/ (nStops = 0 /\ sessionPromise = "resolved"))
    /\ IF mode = "avatar"
       THEN /\ CallOnClose("onerror")
            /\ ModalOnClose
            /\ NoStop(thenQ, unhandled, "errored")
            /\ UNCHANGED <<isRecording, stopRef>>
       ELSE /\ stopRef => nStops < MaxStops
            /\ AppOnError(sessionPromise, thenQ, unhandled, "errored")
            /\ UNCHANGED <<status, onCloseLog>>
    /\ UNCHANGED <<mode, startVars, pc, sessionPromise, activeSession, sent, nCaptured, early,
                   stoppedAtOpen, isOpen, cleanup, modalRes, playVars, inVars, codecVars>>

\* callbacks.onclose: the connection has closed, by the remote end or after
\* session.close()
WsClosed ==
    /\ ws \in {"connecting", "open", "errored", "closing"}
    /\ ws' = "closed"
    /\ endedFirst' = (endedFirst \/ (nStops = 0 /\ sessionPromise = "resolved"))
    /\ IF isCleaningUp
       THEN UNCHANGED <<status, isRecording, stopRef, onCloseLog>>
       ELSE /\ CallOnClose("onclose")
            /\ IF mode = "avatar"
               THEN ModalOnClose /\ UNCHANGED <<isRecording, stopRef>>
               ELSE AppOnClose /\ UNCHANGED status
    /\ UNCHANGED <<mode, startVars, pc, sessionPromise, activeSession, sent, nCaptured,
                   isCleaningUp, streamLive, procConnected, audioContext, calls,
                   thenQ, unhandled, nStops, nThrows, early, stoppedAtOpen,
                   isOpen, cleanup, modalRes, playVars, inVars, codecVars>>

\* ------------------------------------------------------------------- capture
\* mutant: the handler waits for the session before it takes the next frame
CaptureReadyBlocking ==
    procConnected /\ audioContext = "running" /\ sessionPromise = "resolved"

\* the processor delivers frames while it is wired into a running context
CaptureReady == procConnected /\ audioContext = "running"

\* processor.onaudioprocess: the handler registers a reaction on
\* sessionPromise and returns; on a settled promise the reaction runs at once
OnAudioProcess ==
    /\ CaptureReady
    /\ nCaptured < MaxFrames
    /\ nCaptured' = nCaptured + 1
    /\ thenQ' = IF sessionPromise = "pending"
                THEN Append(thenQ, Frame(nCaptured + 1)) ELSE thenQ
    /\ early' = IF sessionPromise = "pending"
                THEN Append(early, nCaptured + 1) ELSE early
    /\ sent' = IF sessionPromise = "resolved" /\ ~isCleaningUp
               THEN Append(sent, nCaptured + 1) ELSE sent
    /\ unhandled' = IF sessionPromise = "rejected"
                    THEN unhandled \cup {"frame"} ELSE unhandled
    /\ UNCHANGED <<mode, startVars, pc, sessionPromise, activeSession, isCleaningUp,
                   streamLive, procConnected, audioContext, calls, ws, nStops,
                   nThrows, stoppedAtOpen, endedFirst, onCloseLog, callerVars, playVars, inVars, codecVars>>

\* the promise of audioContext.close() settles: state becomes 'closed'
CtxCloseDone ==
    /\ audioContext = "closing"
    /\ audioContext' = "closed"
    /\ UNCHANGED <<mode, startVars, pc, sessionPromise, activeSession, sent, nCaptured,
                   isCleaningUp, streamLive, procConnected, calls, ws, thenQ,
                   unhandled, histVars, callerVars, playVars, inVars, codecVars>>

\* ------------------------------------------------------------------ stopping
\* the caller invokes the stop function it was returned
InvokeStop ==
    /\ pc = "started"
    /\ nStops < MaxStops
    /\ \E thr \in ThrowChoices : StopFn(thr, sessionPromise, thenQ, unhandled, ws)
    /\ UNCHANGED <<mode, startVars, pc, sessionPromise, activeSession, sent, nCaptured, early,
                   stoppedAtOpen, endedFirst, onCloseLog, callerVars, playVars, inVars, codecVars>>

\* VoiceAvatarModal: isOpen becomes false and the effect's cleanup runs; an
\* exception out of the stop function skips the rest of the cleanup.
\* stopSessionRef is never cleared: before the new session has stored its
\* stop function the ref still holds the one of the session opened before
CloseModal ==
    /\ mode = "avatar" /\ isOpen
    /\ stopRef => nStops < MaxStops
    /\ isOpen' = FALSE
    /\ cleanup' = TRUE
    /\ \E thr \in (IF stopRef THEN ThrowChoices ELSE {"none"}) :
          /\ IF stopRef
             THEN StopFn(thr, sessionPromise, thenQ, unhandled, ws) /\ UNCHANGED prior
             ELSE /\ NoStop(thenQ, unhandled, ws)
                  /\ prior' = IF prior.ref
                              THEN [prior EXCEPT !.session = FALSE, !.stream = FALSE]
                              ELSE prior
          /\ IF thr = "none"
             THEN /\ modalStream' = IF modalStream = "none" THEN "none" ELSE "stopped"
                  /\ modalTap' = IF modalTap = "none" THEN "none" ELSE "disconnected"
                  /\ modalCtx' = IF modalCtx = "none" THEN "none" ELSE "closed"
             ELSE UNCHANGED <<modalStream, modalTap, modalCtx>>
    /\ UNCHANGED <<mode, nStarts, nConnects, pc, sessionPromise, activeSession, sent, nCaptured, early,
                   stoppedAtOpen, endedFirst, onCloseLog, stopRef, status, isRecording,
                   inputCtx, playVars, inVars, codecVars>>

\* VoiceAvatarModal is opened again after an earlier session: the effect runs
\* startSession up to its first await.  The locals of the earlier calls live
\* on in their closures; what they keep alive is summarised in prior.  The
\* refs of the component keep their values, the new output context's clock
\* starts at 0.
ReopenModal ==
    /\ mode = "avatar" /\ ~isOpen
    /\ pc \in {"started", "failed"}
    /\ nStarts < MaxStarts
    /\ decodeQ = <<>>
    /\ nStarts' = nStarts + 1
    /\ prior' = IF stopRef
                THEN [session |-> ws \in {"connecting", "open", "errored"},
                      stream |-> streamLive,
                      ref |-> TRUE,
                      orphans |-> prior.orphans,
                      modalStream |-> prior.modalStream,
                      outCtx |-> prior.outCtx \/ modalCtx = "running"]
                ELSE [prior EXCEPT !.outCtx = @ \/ modalCtx = "running"]
    /\ pc' = "modalMedia"
    /\ isOpen' = TRUE
    /\ cleanup' = FALSE
    /\ status' = "connecting"
    /\ modalCtx' = "running"
    /\ inputCtx' = "running"
    /\ stopRef' = FALSE
    /\ audioContext' = "none"
    /\ streamLive' = FALSE
    /\ procConnected' = FALSE
    /\ sessionPromise' = "none"
    /\ ws' = "none"
    /\ activeSession' = FALSE
    /\ isCleaningUp' = FALSE
    /\ thenQ' = <<>>
    /\ sent' = <<>>
    /\ nCaptured' = 0
    /\ calls' = [s \in StepSet |-> 0]
    /\ unhandled' = {}
    /\ nStops' = 0
    /\ nThrows' = 0
    /\ early' = <<>>
    /\ stoppedAtOpen' = FALSE
    /\ endedFirst' = FALSE
    /\ onCloseLog' = <<>>
    /\ clock' = 0
    /\ scheduled' = <<>>
    /\ ended' = {}
    /\ UNCHANGED <<mode, nConnects, isRecording, modalStream, modalTap,
                   nextStartTime, decodeQ, isTalking, nArrived, decodeErrors,
                   inVars, codecVars>>

\* App.handleMicClick while recording: an exception out of the stop function
\* skips the statements after it
MicClickStop ==
    /\ mode = "dictation" /\ isRecording
    /\ stopRef => nStops < MaxStops
    /\ \E thr \in (IF stopRef THEN ThrowChoices ELSE {"none"}) :
          /\ IF stopRef
             THEN StopFn(thr, sessionPromise, thenQ, unhandled, ws)
             ELSE NoStop(thenQ, unhandled, ws)
          /\ stopRef' = (stopRef /\ thr # "none")
          /\ isRecording' = (thr # "none")
    /\ UNCHANGED <<mode, startVars, pc, sessionPromise, activeSession, sent, nCaptured, early,
                   stoppedAtOpen, endedFirst, onCloseLog, isOpen, cleanup, status, modalRes,
                   playVars, inVars, codecVars>>

\* ------------------------------------------------------ playback scheduler
\* decodeAudioData: 16-bit mono PCM, a whole number of samples or an error
DecodeOk(bytes) == bytes % BytesPerSample = 0
Duration(bytes) == bytes \div BytesPerSample

\* mutant: the cursor is never reset to the clock
ScheduleStartNoReset(cursor, currentTime) == cursor

\* mutant: every buffer is started at the current clock time
ScheduleStartNow(cursor, currentTime) == currentTime

\* if (nextStartTimeRef.current < currentTime) nextStartTimeRef.current = currentTime
ScheduleStart(cursor, currentTime) ==
    IF cursor < currentTime THEN currentTime ELSE cursor

\* mutant: the cursor is not advanced after scheduling
AdvanceNone(start, duration) == start

\* nextStartTimeRef.current += buffer.duration
Advance(start, duration) == start + duration

\* mutant: the callback suspended last resumes first
ResumeLast(q) == Len(q)

\* the suspended callback that resumes first: the decodes settle in call order
ResumeIndex(q) == 1

\* mutant: the transcription is passed on whether or not it is empty
HasTextAlways(m) == TRUE

\* if (audioData), if (text): the payload is present and not empty
HasAudio(m) == m.audio # 0
HasText(m) == m.text # <<>>

\* callbacks.onmessage of connectLiveTriageSession: a message with an audio
\* payload is given to the modal's audio callback, which runs up to
\* await decodeAudioData; any other message is ignored
AvatarOnMessage(m) ==
    /\ mode = "avatar" /\ ws = "open"
    /\ Len(inbox) < MaxChunks
    /\ inbox' = Append(inbox, m)
    /\ IF HasAudio(m)
       THEN /\ nArrived < MaxChunks
            /\ Len(decodeQ) < MaxPending
            /\ delivered' = Append(delivered, [msg |-> Len(inbox) + 1,
                                               cb |-> "onAudioData", data |-> m.audio])
            /\ nArrived' = nArrived + 1
            /\ isTalking' = (isTalking \/ ~cleanup)
            /\ decodeQ' = IF ~cleanup /\ modalCtx # "none"
                          THEN Append(decodeQ, [id |-> nArrived + 1, bytes |-> m.audio])
                          ELSE decodeQ
       ELSE UNCHANGED <<delivered, nArrived, isTalking, decodeQ>>
    /\ UNCHANGED <<sessVars, callerVars, codecVars, clock, nextStartTime, scheduled,
                   ended, decodeErrors, inputText>>

\* a message whose first part carries bytes of audio and nothing else
OnAudioChunk(bytes) == AvatarOnMessage([audio |-> bytes, text |-> <<>>])

RECURSIVE TrimLeft(_)
TrimLeft(t) == IF t # <<>> /\ Head(t) = " " THEN TrimLeft(Tail(t)) ELSE t
RECURSIVE TrimRight(_)
TrimRight(t) ==
    IF t # <<>> /\ t[Len(t)] = " " THEN TrimRight(SubSeq(t, 1, Len(t) - 1)) ELSE t
Trim(t) == TrimRight(TrimLeft(t))

\* App.handleMicClick's onTranscription callback: the new value of inputText
AppOnTranscription(prev, text) ==
    LET trimmed == Trim(text)
    IN  IF trimmed = <<>> THEN prev
        ELSE IF Len(prev) > 0 /\ prev[Len(prev)] # " "
             THEN prev \o <<" ">> \o trimmed
             ELSE prev \o trimmed

\* callbacks.onmessage of startLiveDictation: a message with a transcription
\* text is given to the App's callback; any other message is ignored
DictationOnMessage(m) ==
    /\ mode = "dictation" /\ ws = "open"
    /\ Len(inbox) < MaxChunks
    /\ inbox' = Append(inbox, m)
    /\ IF HasText(m)
       THEN /\ delivered' = Append(delivered, [msg |-> Len(inbox) + 1,
                                               cb |-> "onTranscription", data |-> m.text])
            /\ inputText' = AppOnTranscription(inputText, m.text)
       ELSE UNCHANGED <<delivered, inputText>>
    /\ UNCHANGED <<sessVars, callerVars, playVars, codecVars>>

\* mutant: the cursor is advanced by the chunk's length before the decode
\* has succeeded
DecodeResumeCursorFirst ==
    /\ decodeQ # <<>>
    /\ LET c == decodeQ[1]
           start == ScheduleStart(nextStartTime, clock)
       IN  /\ decodeQ' = Tail(decodeQ)
           /\ nextStartTime' = Advance(start, Duration(c.bytes))
           /\ IF DecodeOk(c.bytes)
              THEN /\ scheduled' = Append(scheduled,
                                     [id |-> c.id, bytes |-> c.bytes, start |-> start,
                                      dur |-> Duration(c.bytes), at |-> clock,
                                      cur |-> nextStartTime,
                                      behind |-> Len(decodeQ) - 1])
                   /\ UNCHANGED decodeErrors
              ELSE /\ decodeErrors' = decodeErrors + 1
                   /\ UNCHANGED scheduled
    /\ UNCHANGED <<sessVars, callerVars, inVars, codecVars, clock, ended, isTalking,
                   nArrived>>

\* the audio callback resumes after the decode: on a decode error the
\* callback rejects and nothing is scheduled
DecodeResume ==
    /\ decodeQ # <<>>
    /\ LET k == ResumeIndex(decodeQ)
           c == decodeQ[k]
           start == ScheduleStart(nextStartTime, clock)
       IN  /\ decodeQ' = [i \in 1..(Len(decodeQ) - 1) |->
                             IF i < k THEN decodeQ[i] ELSE decodeQ[i + 1]]
           /\ IF DecodeOk(c.bytes)
              THEN /\ scheduled' = Append(scheduled,
                                     [id |-> c.id, bytes |-> c.bytes, start |-> start,
                                      dur |-> Duration(c.bytes), at |-> clock,
                                      cur |-> nextStartTime,
                                      behind |-> Len(decodeQ) - 1])
                   /\ nextStartTime' = Advance(start, Duration(c.bytes))
                   /\ UNCHANGED decodeErrors
              ELSE /\ decodeErrors' = decodeErrors + 1
                   /\ UNCHANGED <<scheduled, nextStartTime>>
    /\ UNCHANGED <<sessVars, callerVars, inVars, codecVars, clock, ended, isTalking, nArrived>>

\* the output context's clock advances
Tick(d) ==
    /\ modalCtx = "running"
    /\ clock + d <= MaxClock
    /\ clock' = clock + d
    /\ UNCHANGED <<sessVars, callerVars, inVars, codecVars, nextStartTime, decodeQ, scheduled, ended,
                   isTalking, nArrived, decodeErrors>>

\* source.onended of the i-th scheduled buffer
OnEnded(i) ==
    /\ i \in 1..Len(scheduled) /\ i \notin ended
    /\ clock >= scheduled[i].start + scheduled[i].dur
    /\ ended' = ended \cup {i}
    /\ isTalking' = IF clock >= nextStartTime - GuardSamples THEN FALSE ELSE isTalking
    /\ UNCHANGED <<sessVars, callerVars, inVars, codecVars, clock, nextStartTime, decodeQ, scheduled,
                   nArrived, decodeErrors>>

\* ------------------------------------------------- encoder and decoder
\* A sample x is held as the integer x * SampleDen, so the samples of the
\* model are the multiples of 1/65536.
Int16Scale == 2 ^ 15
SampleDen == 2 * Int16Scale
Pad == 2 ^ 6                     \* the base64 padding character

Samples == {-2 * SampleDen, -SampleDen, 1 - SampleDen, -Int16Scale - 1, -3, -1, 0,
            1, 3, Int16Scale, SampleDen - 1, SampleDen, SampleDen + Int16Scale}
Frames == UNION {[1..n -> Samples] : n \in 1..MaxSamples}

Abs(x) == IF x >= 0 THEN x ELSE -x
TruncDiv(a, b) == IF a >= 0 THEN a \div b ELSE -((-a) \div b)

\* clamp to [-1, 1]
Clamp(x) == IF x > SampleDen THEN SampleDen
            ELSE IF x < -SampleDen THEN -SampleDen ELSE x

\* 1/32768 in the unit of the samples
Quantum == SampleDen \div Int16Scale

\* mutant: +1.0 is scaled to 32768 and wraps when stored in 16 bits
Int16OfWrapped(x) == TruncDiv(Clamp(x), Quantum)

\* scale to the 16-bit signed integer range
Int16Of(x) ==
    LET q == TruncDiv(Clamp(x), Quantum)
    IN  IF q > Int16Scale - 1 THEN Int16Scale - 1 ELSE q

\* little-endian 16-bit integers in a contiguous byte buffer
PcmBytes(f) ==
    [i \in 1..(2 * Len(f)) |->
        LET u == Int16Of(f[(i + 1) \div 2]) % (2 * Int16Scale)
        IN  IF i % 2 = 1 THEN u % 256 ELSE u \div 256]

\* base64 text of the bytes b, as the indices of its characters
Base64Encode(b) ==
    LET n == Len(b)
        Byte(j) == IF j <= n THEN b[j] ELSE 0
        Sextet(i) ==
            LET k == (i - 1) \div 4
                r == (i - 1) % 4
                v == Byte(3 * k + 1) * 65536 + Byte(3 * k + 2) * 256 + Byte(3 * k + 3)
            IN  IF 3 * k + r > n THEN Pad ELSE (v \div (64 ^ (3 - r))) % 64
    IN  [i \in 1..(4 * ((n + 2) \div 3)) |-> Sextet(i)]

\* base64ToUint8Array
Base64ToUint8Array(t) ==
    LET pads == Cardinality({i \in 1..Len(t) : t[i] = Pad})
        Sx(i) == IF t[i] = Pad THEN 0 ELSE t[i]
        Byte(j) ==
            LET k == (j - 1) \div 3
                r == (j - 1) % 3
                v == Sx(4 * k + 1) * 262144 + Sx(4 * k + 2) * 4096
                     + Sx(4 * k + 3) * 64 + Sx(4 * k + 4)
            IN  (v \div (256 ^ (2 - r))) % 256
    IN  [j \in 1..((Len(t) \div 4) * 3 - pads) |-> Byte(j)]

\* the samples of the buffer decodeAudioData builds from the bytes b
DecodeSamples(b) ==
    [i \in 1..(Len(b) \div BytesPerSample) |->
        LET u == b[2 * i - 1] + 256 * b[2 * i]
            q == IF u >= Int16Scale THEN u - 2 * Int16Scale ELSE u
        IN  q * Quantum]

\* createPcmBlob(inputData)
CreatePcmBlob ==
    /\ frame # <<>> /\ chunk = <<>>
    /\ chunk' = Base64Encode(PcmBytes(frame))
    /\ UNCHANGED <<sessVars, callerVars, playVars, inVars, frame, pcm>>

\* decodeAudioData(base64ToUint8Array(chunk), ctx, 24000, 1)
DecodeChunk ==
    /\ chunk # <<>> /\ pcm = <<>>
    /\ LET b == Base64ToUint8Array(chunk)
       IN  /\ DecodeOk(Len(b))
           /\ pcm' = DecodeSamples(b)
    /\ UNCHANGED <<sessVars, callerVars, playVars, inVars, frame, chunk>>

Next ==
    \/ OpenModal
    \/ ModalMediaGranted
    \/ ModalMediaDenied
    \/ MicClickStart
    \/ ResumeDone
    \/ MediaGranted
    \/ MediaDenied
    \/ HandshakeOpen
    \/ HandshakeReject
    \/ TransportError
    \/ WsClosed
    \/ OnAudioProcess
    \/ CtxCloseDone
    \/ InvokeStop
    \/ CloseModal
    \/ MicClickStop

Spec == Init /\ [][Next]_vars
\* The playback scheduler shares no state with capture and with the stop
\* function.  It is exercised on its own, from the state of an avatar session
\* that has been started and whose handshake has resolved (a state Spec
\* reaches by OpenModal, ModalMediaGranted, ResumeDone, MediaGranted,
\* HandshakeOpen).
PlaybackInit ==
    /\ mode = "avatar"
    /\ pc = "started"
    /\ audioContext = "running"
    /\ streamLive = TRUE
    /\ procConnected = TRUE
    /\ sessionPromise = "resolved"
    /\ ws = "open"
    /\ activeSession = TRUE
    /\ isCleaningUp = FALSE
    /\ thenQ = <<>>
    /\ sent = <<>>
    /\ nCaptured = 0
    /\ calls = [s \in StepSet |-> 0]
    /\ unhandled = {}
    /\ stopRef = TRUE
    /\ isOpen = TRUE
    /\ cleanup = FALSE
    /\ status = "connected"
    /\ isRecording = FALSE
    /\ modalStream = "live"
    /\ modalTap = "created"
    /\ modalCtx = "running"
    /\ inputCtx = "running"
    /\ nStops = 0
    /\ nThrows = 0
    /\ early = <<>>
    /\ stoppedAtOpen = FALSE
    /\ endedFirst = FALSE
    /\ onCloseLog = <<>>
    /\ clock = 0
    /\ nextStartTime = 0
    /\ decodeQ = <<>>
    /\ scheduled = <<>>
    /\ ended = {}
    /\ isTalking = FALSE
    /\ nArrived = 0
    /\ decodeErrors = 0
    /\ nStarts = 1
    /\ nConnects = 1
    /\ prior = NoPrior
    /\ inbox = <<>>
    /\ delivered = <<>>
    /\ inputText = <<>>
    /\ frame = <<>>
    /\ chunk = <<>>
    /\ pcm = <<>>

PlaybackNext ==
    \/ \E bytes \in ChunkBytes : OnAudioChunk(bytes)
    \/ DecodeResume
    \/ \E d \in ClockSteps : Tick(d)
    \/ \E i \in 1..MaxChunks : OnEnded(i)

PlaybackSpec == PlaybackInit /\ [][PlaybackNext]_vars

\* The modal is closed and opened again while the scheduler is at work: the
\* playback scheduler together with the steps that end a session and start
\* the next one.  Here the decode settles within the task of its message: a
\* suspended audio callback resumes before anything else happens.  The clock
\* advances by the larger step only.
ReopenNext ==
    \/ DecodeResume
    \/ decodeQ = <<>> /\ \E bytes \in ChunkBytes : OnAudioChunk(bytes)
    \/ decodeQ = <<>> /\ Tick(LongStep)
    \/ decodeQ = <<>> /\ \E i \in 1..MaxChunks : OnEnded(i)
    \/ decodeQ = <<>> /\ CloseModal
    \/ decodeQ = <<>> /\ ReopenModal
    \/ decodeQ = <<>> /\ ModalMediaGranted
    \/ decodeQ = <<>> /\ ResumeDone
    \/ decodeQ = <<>> /\ MediaGranted
    \/ decodeQ = <<>> /\ HandshakeOpen

ReopenSpec == PlaybackInit /\ [][ReopenNext]_vars

\* The modal is closed while the scheduler is at work: the playback scheduler
\* together with the effect's cleanup.  A callback suspended on its decode
\* when the cleanup runs resumes after it.  The clock advances by the larger
\* step only.
TeardownNext ==
    \/ \E bytes \in ChunkBytes : OnAudioChunk(bytes)
    \/ DecodeResume
    \/ Tick(LongStep)
    \/ \E i \in 1..MaxChunks : OnEnded(i)
    \/ CloseModal

TeardownSpec == PlaybackInit /\ [][TeardownNext]_vars

\* A session of either mode with every user action, the modal being opened
\* again included.
SessionsNext == Next \/ ReopenModal

SessionsSpec == Init /\ [][SessionsNext]_vars

\* The state of a dictation session that has been started and whose
\* handshake has resolved (a state Spec reaches by MicClickStart, ResumeDone,
\* MediaGranted, HandshakeOpen).
DictationInit ==
    /\ mode = "dictation"
    /\ pc = "started"
    /\ audioContext = "running"
    /\ streamLive = TRUE
    /\ procConnected = TRUE
    /\ sessionPromise = "resolved"
    /\ ws = "open"
    /\ activeSession = TRUE
    /\ isCleaningUp = FALSE
    /\ thenQ = <<>>
    /\ sent = <<>>
    /\ nCaptured = 0
    /\ calls = [s \in StepSet |-> 0]
    /\ unhandled = {}
    /\ stopRef = TRUE
    /\ isOpen = FALSE
    /\ cleanup = FALSE
    /\ status = "connecting"
    /\ isRecording = TRUE
    /\ modalStream = "none"
    /\ modalTap = "none"
    /\ modalCtx = "none"
    /\ inputCtx = "none"
    /\ nStops = 0
    /\ nThrows = 0
    /\ early = <<>>
    /\ stoppedAtOpen = FALSE
    /\ endedFirst = FALSE
    /\ onCloseLog = <<>>
    /\ clock = 0
    /\ nextStartTime = 0
    /\ decodeQ = <<>>
    /\ scheduled = <<>>
    /\ ended = {}
    /\ isTalking = FALSE
    /\ nArrived = 0
    /\ decodeErrors = 0
    /\ nStarts = 1
    /\ nConnects = 1
    /\ prior = NoPrior
    /\ inbox = <<>>
    /\ delivered = <<>>
    /\ inputText = <<>>
    /\ frame = <<>>
    /\ chunk = <<>>
    /\ pcm = <<>>

\* The inbound messages of an open session of either mode.
InboundInit == PlaybackInit \/ DictationInit

InboundNext ==
    \/ \E m \in Messages : AvatarOnMessage(m)
    \/ \E m \in Messages : DictationOnMessage(m)
    \/ DecodeResume

InboundSpec == InboundInit /\ [][InboundNext]_vars

\* The encoder and the decoder applied to one frame.
CodecInit ==
    /\ mode \in Modes
    /\ frame \in Frames
    /\ Idle

CodecNext == CreatePcmBlob \/ DecodeChunk

CodecSpec == CodecInit /\ [][CodecNext]_vars
\* The browser completes what it was asked to do: resume() and close() settle,
\* and a connection closed with session.close() reports its close.  Nothing is
\* assumed of the user or of the remote end.
FairSpec ==
    /\ Spec
    /\ WF_vars(ResumeDone)
    /\ WF_vars(CtxCloseDone)
    /\ WF_vars(ws = "closing" /\ WsClosed)

\* =================================================================== claims
TornDown ==
    /\ calls["tracks"] >= 1
    /\ calls["source"] >= 1
    /\ calls["processor"] >= 1
    /\ audioContext \in {"closing", "closed"}
    /\ calls["session"] >= 1

\* C1: after N >= 1 invocations of the stop function, in any interleaving
\* with a remote close or a transport error, each release step has been
\* executed exactly once (the session being open and no step having thrown)
C1_EachStepExactlyOnce ==
    (nStops >= 1 /\ nThrows = 0 /\ sessionPromise = "resolved")
        => \A s \in StepSet : calls[s] = 1

\* C2: when an open session is ended by the remote end (onclose) or by a
\* transport error (onerror) before the caller has invoked stop, the full
\* teardown is eventually performed (unless a release step throws)
C2_TeardownAfterRemoteEnd == endedFirst ~> (TornDown \/ nThrows > 0)

\* C3: once the stop function has run, every release step has been executed,
\* also when one of them threw
C3_NoPartialTeardown ==
    nStops >= 1 =>
        /\ \A s \in {"tracks", "source", "processor", "ctx"} : calls[s] >= 1
        /\ \/ calls["session"] >= 1
           \/ NCloses(thenQ) >= 1
           \/ unhandled \cap {"close", "closeAfterReject"} # {}

\* C4: a stop invoked while the handshake is pending closes the session
\* exactly once when the handshake resolves, and its pending close is no
\* unhandled rejection when the handshake rejects
C4_PendingStopDrained ==
    /\ stoppedAtOpen => calls["session"] = 1
    /\ "close" \notin unhandled

InSeq(x, q) == \E i \in 1..Len(q) : q[i] = x

\* C9 as stated: no frame captured before the handshake resolved is ever
\* passed to session.sendRealtimeInput
C9_EarlyFramesNeverSent == \A i \in 1..Len(sent) : ~InSeq(sent[i], early)

\* C9 as amended: a frame captured before the handshake resolved is not sent
\* while the handshake is pending; when the handshake resolves the frames held
\* on the promise are sent first, in capture order, unless stop was invoked
\* before, and then none of them is ever sent
C9_EarlyFramesHeldUntilOpen ==
    /\ sessionPromise # "resolved" => sent = <<>>
    /\ sessionPromise = "resolved" =>
          IF stoppedAtOpen
          THEN \A i \in 1..Len(sent) : ~InSeq(sent[i], early)
          ELSE /\ Len(sent) >= Len(early)
               /\ SubSeq(sent, 1, Len(early)) = early

C9_Witness ==
    /\ sessionPromise = "resolved" /\ ~stoppedAtOpen
    /\ Len(early) = 2
    /\ sent = early

Last(q) == q[Len(q)]
Max(a, b) == IF a >= b THEN a ELSE b

\* C5: the start times passed to source.start never decrease, each is at or
\* after the end of the buffer scheduled before it, and nextStartTime never
\* decreases
C5_MonotonicSchedule ==
    [][/\ nextStartTime' >= nextStartTime
       /\ (Len(scheduled') > Len(scheduled) /\ Len(scheduled) >= 1) =>
             /\ Last(scheduled').start >= Last(scheduled).start
             /\ Last(scheduled').start >= Last(scheduled).start + Last(scheduled).dur]_vars

C5_Witness ==
    /\ Len(scheduled) = 3
    /\ scheduled[2].start = scheduled[1].start + scheduled[1].dur
    /\ scheduled[3].start > scheduled[2].start + scheduled[2].dur

\* C6: every buffer starts at max(clock, cursor), never before the clock read
\* at scheduling, and the cursor is then advanced by exactly its duration
C6_StartAtMaxThenAdvance ==
    \A i \in 1..Len(scheduled) :
        LET e == scheduled[i]
        IN  /\ e.start = Max(e.at, e.cur)
            /\ e.start >= e.at
            /\ IF i < Len(scheduled)
               THEN scheduled[i + 1].cur = e.start + e.dur
               ELSE nextStartTime = e.start + e.dur

C6_Witness ==
    /\ Len(scheduled) >= 2
    /\ \E i \in 1..Len(scheduled) : scheduled[i].at > scheduled[i].cur
    /\ \E i \in 1..Len(scheduled) : scheduled[i].at < scheduled[i].cur

RECURSIVE SumDur(_)
SumDur(q) == IF q = <<>> THEN 0 ELSE q[1].dur + SumDur(Tail(q))

\* the next buffer is scheduled while audio of its predecessor is still ahead
\* of the clock
Jittered(i) == scheduled[i + 1].at <= scheduled[i].start + scheduled[i].dur

\* C7: a buffer scheduled while its predecessor's audio is still ahead of the
\* clock starts exactly where the predecessor ends, and a run of such buffers
\* covers exactly the sum of their durations
C7_GaplessUnderJitter ==
    /\ \A i \in 1..(Len(scheduled) - 1) :
          Jittered(i) => scheduled[i + 1].start = scheduled[i].start + scheduled[i].dur
    /\ (Len(scheduled) >= 1 /\ \A i \in 1..(Len(scheduled) - 1) : Jittered(i))
          => nextStartTime - scheduled[1].start = SumDur(scheduled)

\* two chunks of 4096 samples, the second scheduled 50 ms after the first
C7_Witness ==
    /\ Len(scheduled) = 2
    /\ scheduled[1].dur = 4096 /\ scheduled[2].dur = 4096
    /\ scheduled[2].at = scheduled[1].at + 1200
    /\ scheduled[2].start = scheduled[1].start + 4096
    /\ nextStartTime - scheduled[1].start = 8192

C11_SentInCaptureOrder ==
    \A i, j \in 1..Len(sent) : i < j => sent[i] < sent[j]

\* one frame held on the pending promise, one sent directly afterwards
C11_Witness ==
    /\ early = <<1>>
    /\ sent = <<1, 2>>

\* C12: when getUserMedia rejects, the start call has failed with the error
\* state shown (modal status 'error', App not recording), no handshake was
\* initiated and onOpen, which only the handshake invokes, never ran
C12_MediaDeniedFailsStart ==
    pc = "failed" =>
        /\ sessionPromise = "none" /\ ws = "none"
        /\ ~activeSession /\ ~streamLive
        /\ mode = "avatar" => status = "error"
        /\ mode = "dictation" => ~isRecording

\* the session's own getUserMedia was the one that rejected
C12_Witness ==
    /\ pc = "failed"
    /\ audioContext = "running"

\* the chunks given to the audio callback that are no whole number of samples
Malformed == {i \in 1..Len(inbox) : HasAudio(inbox[i]) /\ ~DecodeOk(inbox[i].audio)}

C14_HandshakeFailureReported ==
    sessionPromise = "rejected" =>
        IF mode = "avatar" THEN cleanup \/ status # "connecting"
        ELSE ~isRecording

\* C15: ai.live.connect is called at most once for each start call of the
\* caller, whatever failure, close or error the session has met
C15_NeverRetries == nConnects <= nStarts

\* the handshake was rejected and the capture went on, with no second connect
C15_Witness ==
    /\ sessionPromise = "rejected"
    /\ "frame" \in unhandled
    /\ nConnects = 1

ToInt(b) == IF b THEN 1 ELSE 0

\* the sessions, the acquired microphone streams and the running output
\* contexts of one conversation mode
AliveSessions ==
    ToInt(ws \in {"connecting", "open", "errored"}) + ToInt(prior.session)
        + prior.orphans
AliveStreams ==
    ToInt(streamLive) + ToInt(modalStream = "live") + ToInt(prior.stream)
        + ToInt(prior.modalStream) + prior.orphans
AliveSchedulers == ToInt(modalCtx = "running") + ToInt(prior.outCtx)

\* C16: at most one session, one live capture pipeline and one playback
\* scheduler are alive at any time
C16_AtMostOneOfEach ==
    /\ AliveSessions <= 1
    /\ AliveStreams <= 1
    /\ AliveSchedulers <= 1

\* C17: in every session the first buffer starts at the output clock's
\* current time, the cursor carrying nothing over from the session before
C17_FirstBufferAtClock ==
    Len(scheduled) >= 1 => scheduled[1].start = scheduled[1].at

\* C18: while the modal shows a connected session, isTalking is true whenever
\* nextStartTime is ahead of the output clock by more than the guard interval
C18_TalkingWhileHorizonAhead ==
    (isOpen /\ status = "connected" /\ nextStartTime > clock + GuardSamples)
        => isTalking

\* C19: the dictation callback is given only the non-empty transcription
\* text of a message and never audio; the audio callback is given only the
\* audio payload of a message, once for each message that carries one
C19_DeliveryByMode ==
    /\ \A i \in 1..Len(delivered) :
          LET e == delivered[i]
              m == inbox[e.msg]
          IN  IF mode = "dictation"
              THEN e.cb = "onTranscription" /\ e.data = m.text /\ e.data # <<>>
              ELSE e.cb = "onAudioData" /\ e.data = m.audio /\ e.data # 0
    /\ \A i, j \in 1..Len(delivered) : i < j => delivered[i].msg < delivered[j].msg
    /\ Len(delivered) =
          IF mode = "dictation"
          THEN Cardinality({i \in 1..Len(inbox) : inbox[i].text # <<>>})
          ELSE Cardinality({i \in 1..Len(inbox) : inbox[i].audio # 0})

\* a dictation session was sent audio without text, an empty text and a text
C19_Witness ==
    /\ mode = "dictation"
    /\ Len(inbox) = 3 /\ Len(delivered) = 1
    /\ \E i \in 1..Len(inbox) : inbox[i].audio # 0 /\ inbox[i].text = <<>>

\* C20: a frame of N samples, encoded and decoded again, gives N samples, each
\* within 1/32768 of the original clamped to [-1, 1]
C20_RoundTrip ==
    pcm # <<>> =>
        /\ Len(pcm) = Len(frame)
        /\ \A i \in 1..Len(frame) : Abs(pcm[i] - Clamp(frame[i])) <= Quantum

\* a frame with the sample +1.0 and a sample above it
C20_Witness ==
    /\ pcm # <<>>
    /\ Len(frame) = 2
    /\ frame[1] = SampleDen
    /\ frame[2] > SampleDen

\* no session and no microphone stream of the opening is alive
NothingAlive ==
    /\ ws \notin {"connecting", "open", "errored"}
    /\ ~streamLive
    /\ modalStream # "live"

\* C21: once the modal's cleanup has run, at whatever point of startSession,
\* the session of that opening is eventually closed and its microphone
\* streams are stopped, and they stay so.  The runs in which the stop
\* function is invoked are set aside: what is left is a cleanup that ran
\* before startSession had stored the stop function
C21_CloseReleasesAll ==
    (mode = "avatar" /\ cleanup) ~> ([]NothingAlive \/ nStops > 0)

\* C22: in dictation mode, whenever the App is not recording and no start is
\* in progress, no dictation session is open and the session's microphone
\* stream is not live (no release step having thrown; a session whose stop
\* function has run counts as closed)
C22_NotRecordingMeansReleased ==
    (/\ mode = "dictation" /\ ~isRecording
     /\ pc \notin {"resume", "getMedia"} /\ nThrows = 0)
        => /\ ws \in {"connecting", "open", "errored"} => isCleaningUp
           /\ ~streamLive

\* no audio callback is suspended on its decode and every scheduled buffer
\* has finished playing: from here on only a new chunk changes isTalking
Drained == decodeQ = <<>> /\ \A i \in 1..Len(scheduled) : i \in ended

\* C23: once the chunks that arrived have been dealt with and the last
\* scheduled buffer has finished playing, isTalking is false, also when the
\* chunk that arrived last failed to decode and was never scheduled
C23_SilentWhenDrained == Drained => ~isTalking

\* C24: once the stop function has been invoked no frame is passed to
\* session.sendRealtimeInput: not the frames whose send was queued on the
\* pending handshake promise, not a frame captured afterwards
C24_NothingSentAfterStop ==
    [][(nStops >= 1 \/ nStops' >= 1) => sent' = sent]_vars

\* a frame was held on the pending promise when stop was invoked, the
\* handshake then resolved, and another frame was captured after that
C24_Witness ==
    /\ stoppedAtOpen /\ sessionPromise = "resolved"
    /\ Len(early) >= 1
    /\ nCaptured > Len(early)
    /\ sent = <<>>

\* C25: the session never calls the caller's onClose after the caller has
\* invoked the stop function, from callbacks.onclose or from
\* callbacks.onerror
C25_NoOnCloseAfterStop ==
    \A i \in 1..Len(onCloseLog) : ~onCloseLog[i].stopped

\* C26: the session calls the caller's onClose at most once, whatever the
\* sequence of its events
C26_OnCloseAtMostOnce == Len(onCloseLog) <= 1

\* C27: when the session's getUserMedia rejects after the capture context
\* has been created and resumed, no audio context created for that start is
\* left open: not the session's, not the two of the modal
C27_FailedStartReleasesContexts ==
    (pc = "failed" /\ audioContext # "none")
        => /\ audioContext # "running"
           /\ modalCtx # "running"
           /\ inputCtx # "running"

\* C28: once the modal's cleanup has run and the output context is closed, no
\* playback buffer is scheduled and the cursor is not advanced, also for a
\* chunk that arrived before the close and whose decode completes after it
C28_NothingScheduledAfterCleanup ==
    [][(cleanup /\ modalCtx = "closed")
          => (scheduled' = scheduled /\ nextStartTime' = nextStartTime)]_vars

\* C29: when the modal is closed after its session was fully started (and no
\* release step throws), everything the modal itself acquired is released: its
\* microphone stream is stopped, its source and processor are disconnected,
\* and its output context and its input context are closed
C29_ModalReleasesItsResources ==
    [][(isOpen /\ ~isOpen' /\ pc = "started" /\ nThrows' = nThrows)
          => /\ modalStream' = "stopped"
             /\ modalTap' = "disconnected"
             /\ modalCtx' = "closed"
             /\ inputCtx' = "closed"]_vars
====
